---------------------------- MODULE Spec2Model ----------------------------
(***************************************************************************)
(* A model of src/video_info.rs: the resolution of a video reference into  *)
(* an identifier, the metadata request, the decoding of the response and   *)
(* the assembly of VideoInfo and of its formats, and get_download_url and  *)
(* get_filename.                                                           *)
(*                                                                         *)
(* A string is a sequence of one-character strings, so that splitting,     *)
(* prefix tests, percent-decoding and integer parsing are computed the way *)
(* the program computes them.                                              *)
(***************************************************************************)
EXTENDS Integers, Sequences, FiniteSets, TLC

VARIABLES
    value,      \* the argument of get_video_info
    env,        \* the process environment: the https_proxy variable
    server,     \* what the transport and the platform answer to a request
    pc,         \* the position of the call
    shape,      \* which branch of get_video_info was taken
    id,         \* the argument of get_video_info_from_html
    sent,       \* the request URLs send() was called with, in order
    resp_body,  \* the response body as read by read_to_string
    info_map,   \* the decoded response (info, line 91)
    result,     \* what get_video_info returned
    dl,         \* the last get_download_url call: argument and result
    filename    \* the last get_filename result

vars == <<value, env, server, pc, shape, id, sent, resp_body, info_map, result, dl, filename>>

---------------------------------------------------------------------------
(* Bounds of the model. *)

\* Most leading slashes of the path of a generated URL.
MaxSlashes == 2
\* Most entries of the two format lists of a generated response, together.
MaxEntries == 3
\* Most key=value pairs of a generated format entry.
MaxPairs == 2

---------------------------------------------------------------------------
(* Characters and strings. *)

Digit == {"0", "1", "2", "3", "4", "5", "6", "7", "8", "9"}

Lower == {"a", "b", "c", "d", "e", "f", "g", "h", "i", "j", "k", "l", "m",
          "n", "o", "p", "q", "r", "s", "t", "u", "v", "w", "x", "y", "z"}

Upper == {"A", "B", "C", "D", "E", "F"}

\* A byte that is no ASCII character (what %FF decodes to).
HighByte == "\\xFF"

\* U+FFFD, what a lossy UTF-8 decoding puts for an invalid byte.
Replacement == "\\uFFFD"

\* The least index of a character of set cs in s, 0 when there is none.
IndexOfAny(s, cs) ==
    IF \E i \in 1..Len(s) : s[i] \in cs
    THEN CHOOSE i \in 1..Len(s) : s[i] \in cs /\ \A j \in 1..(i - 1) : s[j] \notin cs
    ELSE 0

\* The least index of character c in s, 0 when there is none.
IndexOf(s, c) == IndexOfAny(s, {c})

\* str::split on a one-character separator: "" splits into one empty piece.
RECURSIVE Split(_, _)
Split(s, c) ==
    LET i == IndexOf(s, c)
    IN  IF i = 0 THEN <<s>>
        ELSE <<SubSeq(s, 1, i - 1)>> \o Split(SubSeq(s, i + 1, Len(s)), c)

\* str::starts_with
StartsWith(s, p) == Len(s) >= Len(p) /\ SubSeq(s, 1, Len(p)) = p

---------------------------------------------------------------------------
(* Percent-decoding and application/x-www-form-urlencoded parsing          *)
(* (url::percent_encoding::percent_decode, url::form_urlencoded::parse).   *)

\* The printable ASCII characters, codes 32 to 126 in order.
AsciiTable == <<
    " ", "!", "\"", "#", "$", "%", "&", "'", "(", ")", "*", "+", ",", "-", ".", "/",
    "0", "1", "2", "3", "4", "5", "6", "7", "8", "9", ":", ";", "<", "=", ">", "?",
    "@", "A", "B", "C", "D", "E", "F", "G", "H", "I", "J", "K", "L", "M", "N", "O",
    "P", "Q", "R", "S", "T", "U", "V", "W", "X", "Y", "Z", "[", "\\", "]", "^", "_",
    "\\x60", "a", "b", "c", "d", "e", "f", "g", "h", "i", "j", "k", "l", "m", "n", "o",
    "p", "q", "r", "s", "t", "u", "v", "w", "x", "y", "z", "{", "|", "}", "~" >>

HexDigits == Digit \cup {"A", "B", "C", "D", "E", "F", "a", "b", "c", "d", "e", "f"}

HexVal(c) ==
    CASE c \in Digit -> CHOOSE n \in 0..9 : AsciiTable[17 + n] = c
      [] c \in {"A", "a"} -> 10
      [] c \in {"B", "b"} -> 11
      [] c \in {"C", "c"} -> 12
      [] c \in {"D", "d"} -> 13
      [] c \in {"E", "e"} -> 14
      [] c \in {"F", "f"} -> 15

\* The character of a byte: bytes of 128 and more are no ASCII characters and
\* are kept as HighByte; the model generates no control character.
ByteChar(b) ==
    IF b >= 32 /\ b <= 126 THEN AsciiTable[b - 31]
    ELSE IF b >= 128 THEN HighByte
    ELSE "\\x00"

\* An escape starts at index i of s: a % and two hex digits.  The digits of
\* an escape are no %, so no escape starts inside another.
EscapeAt(s, i) ==
    /\ i >= 1 /\ i + 2 <= Len(s)
    /\ s[i] = "%" /\ s[i + 1] \in HexDigits /\ s[i + 2] \in HexDigits

\* percent_decode: %XX with two hex digits becomes the byte, anything else
\* (a lone % included) is kept.  Computed over the indices that are not the
\* digits of an escape, left to right.
percent_decode(s) ==
    LET starts == SelectSeq([i \in 1..Len(s) |-> i],
                            LAMBDA i : ~EscapeAt(s, i - 1) /\ ~EscapeAt(s, i - 2))
    IN  [k \in 1..Len(starts) |->
            IF EscapeAt(s, starts[k])
            THEN ByteChar(16 * HexVal(s[starts[k] + 1]) + HexVal(s[starts[k] + 2]))
            ELSE s[starts[k]]]

\* decode_utf8 fails on a byte sequence that is not UTF-8; in the model the
\* bytes that are not ASCII are lone 0xFF bytes, which never are.
Utf8Ok(bytes) == \A i \in 1..Len(bytes) : bytes[i] # HighByte

\* String::from_utf8_lossy
Utf8Lossy(bytes) ==
    [i \in 1..Len(bytes) |-> IF bytes[i] = HighByte THEN Replacement ELSE bytes[i]]

PlusToSpace(s) == [i \in 1..Len(s) |-> IF s[i] = "+" THEN " " ELSE s[i]]

\* the decode form_urlencoded applies to a name or a value.
FormDecode(s) == Utf8Lossy(percent_decode(PlusToSpace(s)))

\* form_urlencoded::parse: the pieces between "&", empty pieces skipped, each
\* cut at its first "=" (no "=": the value is empty), both sides decoded.
FormPair(piece) ==
    LET i == IndexOf(piece, "=")
    IN  IF i = 0 THEN <<FormDecode(piece), << >> >>
        ELSE <<FormDecode(SubSeq(piece, 1, i - 1)),
               FormDecode(SubSeq(piece, i + 1, Len(piece)))>>

RECURSIVE FormPairs(_)
FormPairs(pieces) ==
    IF pieces = << >> THEN << >>
    ELSE IF Head(pieces) = << >> THEN FormPairs(Tail(pieces))
    ELSE <<FormPair(Head(pieces))>> \o FormPairs(Tail(pieces))

form_urlencoded_parse(s) == FormPairs(Split(s, "&"))

\* Iterator::collect into a HashMap: the pairs inserted in order, a later
\* insert of a key replacing the earlier value.
RECURSIVE CollectFrom(_, _)
CollectFrom(m, pairs) ==
    IF pairs = << >> THEN m
    ELSE LET k == Head(pairs)[1]
             v == Head(pairs)[2]
         IN  CollectFrom([x \in DOMAIN m \cup {k} |-> IF x = k THEN v ELSE m[x]],
                         Tail(pairs))

EmptyMap == [x \in {} |-> << >>]

CollectHashMap(pairs) == CollectFrom(EmptyMap, pairs)

parse_query(query_str) == CollectHashMap(form_urlencoded_parse(query_str))

\* HashMap::get as an Option: Has(m, k) says Some, m[k] is the value.
Has(m, k) == k \in DOMAIN m

---------------------------------------------------------------------------
(* str::parse::<i32> *)

I32Max == 2147483647
I32Min == (0 - I32Max) - 1

DigitVal(c) == HexVal(c)

\* checked_mul by 10 then checked_add of the digit, left to right; None on
\* overflow.
RECURSIVE AddDigits(_, _)
AddDigits(s, acc) ==
    IF s = << >> THEN [ok |-> TRUE, val |-> acc]
    ELSE LET d == DigitVal(Head(s))
         IN  IF acc > (I32Max - d) \div 10 THEN [ok |-> FALSE, val |-> 0]
             ELSE AddDigits(Tail(s), 10 * acc + d)

\* The same for a negative number: checked_sub of the digit.
RECURSIVE SubDigits(_, _)
SubDigits(s, acc) ==
    IF s = << >> THEN [ok |-> TRUE, val |-> acc]
    ELSE LET d == DigitVal(Head(s))
         IN  IF acc < 0 - (I32Max \div 10) \/ d - 1 > 10 * acc + I32Max
             THEN [ok |-> FALSE, val |-> 0]
             ELSE SubDigits(Tail(s), 10 * acc - d)

\* An optional sign, then at least one digit and nothing else, the value in
\* the range of i32.
parse_i32(s) ==
    LET neg    == s # << >> /\ s[1] = "-"
        signed == s # << >> /\ s[1] \in {"+", "-"}
        digits == IF signed THEN Tail(s) ELSE s
    IN  IF digits = << >> \/ \E i \in 1..Len(digits) : digits[i] \notin Digit
        THEN [ok |-> FALSE, val |-> 0]
        ELSE IF neg THEN SubDigits(digits, 0)
        ELSE AddDigits(digits, 0)

---------------------------------------------------------------------------
(* url::Url, for the URLs the model generates: a scheme, then for http and *)
(* https an authority that must hold a host, or for another scheme either  *)
(* "//" and an authority or an opaque path; then a path and a query.       *)

\* An absent host or query: a one-element sequence no string equals.
NoHost == <<"NoHost">>
NoQuery == <<"NoQuery">>

SpecialSchemes == {(*http*) <<"h","t","t","p">>, (*https*) <<"h","t","t","p","s">>}

SchemeChars == Lower \cup Upper \cup Digit \cup {"+", "-", "."}

\* str::trim_start_matches for a one-character pattern: every leading
\* occurrence is removed.
RECURSIVE trim_start_matches(_, _)
trim_start_matches(s, c) ==
    IF s # << >> /\ Head(s) = c THEN trim_start_matches(Tail(s), c) ELSE s

\* Url::parse strips the spaces around its input.
RECURSIVE TrimEnd(_)
TrimEnd(s) ==
    IF s # << >> /\ s[Len(s)] = " " THEN TrimEnd(SubSeq(s, 1, Len(s) - 1)) ELSE s

TrimSpaces(s) == TrimEnd(trim_start_matches(s, " "))

\* The index of the ":" that ends a scheme (a letter, then letters, digits,
\* "+", "-", "."), 0 when the input starts with no scheme.
SchemeEnd(s) ==
    LET i == IndexOf(s, ":")
    IN  IF i > 1 /\ s[1] \in Lower \cup Upper
             /\ \A j \in 2..(i - 1) : s[j] \in SchemeChars
        THEN i ELSE 0

\* s up to, not including, the first character of cs.
UpTo(s, cs) ==
    LET i == IndexOfAny(s, cs) IN IF i = 0 THEN s ELSE SubSeq(s, 1, i - 1)

\* s from its first character of cs on.
From(s, cs) ==
    LET i == IndexOfAny(s, cs) IN IF i = 0 THEN << >> ELSE SubSeq(s, i, Len(s))

QueryOf(rest) ==
    LET q == From(UpTo(rest, {"#"}), {"?"})
    IN  IF q = << >> THEN NoQuery ELSE Tail(q)

UrlErr == [ok |-> FALSE, scheme |-> << >>, host |-> NoHost, path |-> << >>,
           query |-> NoQuery]

Url_parse(input) ==
    LET s      == TrimSpaces(input)
        i      == SchemeEnd(s)
        scheme == SubSeq(s, 1, i - 1)
        rest   == SubSeq(s, i + 1, Len(s))
    IN  IF i = 0 THEN UrlErr                      \* RelativeUrlWithoutBase
        ELSE IF scheme \in SpecialSchemes
        THEN LET after == trim_start_matches(rest, "/")
                 auth  == UpTo(after, {"/", "?", "#"})
                 host  == UpTo(auth, {":"})
                 tail  == From(after, {"/", "?", "#"})
                 path  == UpTo(tail, {"?", "#"})
             IN  IF host = << >> THEN UrlErr      \* EmptyHost
                 ELSE [ok |-> TRUE, scheme |-> scheme, host |-> host,
                       path |-> IF path = << >> THEN (*/*) <<"/">> ELSE path,
                       query |-> QueryOf(tail)]
        ELSE IF StartsWith(rest, (*//*) <<"/","/">>)
        THEN LET after == SubSeq(rest, 3, Len(rest))
                 auth  == UpTo(after, {"/", "?", "#"})
                 tail  == From(after, {"/", "?", "#"})
             IN  [ok |-> TRUE, scheme |-> scheme, host |-> UpTo(auth, {":"}),
                  path |-> UpTo(tail, {"?", "#"}), query |-> QueryOf(tail)]
        ELSE [ok |-> TRUE, scheme |-> scheme, host |-> NoHost,
              path |-> UpTo(rest, {"?", "#"}), query |-> QueryOf(rest)]

\* Url::as_str
Serialize(u) ==
    u.scheme \o (*:*) <<":">>
        \o (IF u.host = NoHost THEN << >> ELSE (*//*) <<"/","/">> \o u.host)
        \o u.path
        \o (IF u.query = NoQuery THEN << >> ELSE (*?*) <<"?">> \o u.query)

\* Url::query_pairs
query_pairs(u) ==
    IF u.query = NoQuery THEN << >> ELSE form_urlencoded_parse(u.query)

---------------------------------------------------------------------------
(* The Format Catalog (format::Format, outside this file): Format::new     *)
(* gives the descriptor of a known itag with an empty attribute map, and   *)
(* None for any other itag.                                                *)

Catalog ==
    [i \in {18, 22, 137} |->
        CASE i = 18  -> [resolution |-> (*360p*) <<"3","6","0","p">>,  extension |-> (*mp4*) <<"m","p","4">>]
          [] i = 22  -> [resolution |-> (*720p*) <<"7","2","0","p">>,  extension |-> (*mp4*) <<"m","p","4">>]
          [] i = 137 -> [resolution |-> (*1080p*) <<"1","0","8","0","p">>, extension |-> (*mp4*) <<"m","p","4">>]]

NoFormat == [itag |-> 0, resolution |-> << >>, extension |-> << >>, meta |-> EmptyMap]

Format_new(i) ==
    IF i \in DOMAIN Catalog
    THEN [some |-> TRUE,
          f |-> [itag |-> i, resolution |-> Catalog[i].resolution,
                 extension |-> Catalog[i].extension, meta |-> EmptyMap]]
    ELSE [some |-> FALSE, f |-> NoFormat]

---------------------------------------------------------------------------
(* Results. *)

\* VideoInfo::default()
DefaultVideoInfo ==
    [title |-> << >>, id |-> << >>, describe |-> << >>, formats |-> << >>,
     keywords |-> << >>, author |-> << >>, duration |-> 0]

\* Result<VideoInfo, Box<dyn Error>>, and the two states that are no Result:
\* Pending while the call runs, Unit for a body that ends without a value.
Ok(v) == [kind |-> "Ok", msg |-> << >>, video_info |-> v]
Err(m) == [kind |-> "Err", msg |-> m, video_info |-> DefaultVideoInfo]
Unit == [kind |-> "Unit", msg |-> << >>, video_info |-> DefaultVideoInfo]
Pending == [kind |-> "Pending", msg |-> << >>, video_info |-> DefaultVideoInfo]

ErrNoVideoId == (*invalid youtube url, no video id*) <<"i","n","v","a","l","i","d"," ","y","o","u","t","u","b","e"," ","u","r","l",","," ","n","o"," ","v","i","d","e","o"," ","i","d">>
ErrStatusNotFound == (*get video info, status not found*) <<"g","e","t"," ","v","i","d","e","o"," ","i","n","f","o",","," ","s","t","a","t","u","s"," ","n","o","t"," ","f","o","u","n","d">>
ErrProxy == (*reqwest: invalid proxy url*) <<"r","e","q","w","e","s","t",":"," ","i","n","v","a","l","i","d"," ","p","r","o","x","y"," ","u","r","l">>
ErrSend == (*reqwest: error sending request*) <<"r","e","q","w","e","s","t",":"," ","e","r","r","o","r"," ","s","e","n","d","i","n","g"," ","r","e","q","u","e","s","t">>
ErrRead == (*io: failed to read response body*) <<"i","o",":"," ","f","a","i","l","e","d"," ","t","o"," ","r","e","a","d"," ","r","e","s","p","o","n","s","e"," ","b","o","d","y">>

---------------------------------------------------------------------------
(* get_video_info_from_html, from the decoded response on (lines 91-176).  *)

\* HashMap::insert
Insert(m, k, v) == [x \in DOMAIN m \cup {k} |-> IF x = k THEN v ELSE m[x]]

\* for (k, v) in &query { f.meta.insert(k, v) }
InsertAll(m, query) ==
    [x \in DOMAIN m \cup DOMAIN query |-> IF x \in DOMAIN query THEN query[x] ELSE m[x]]

\* query.get("conn").map(|s| s.as_str()).unwrap_or_default()
ConnOf(query) == IF Has(query, (*conn*) <<"c","o","n","n">>) THEN query[(*conn*) <<"c","o","n","n">>] ELSE << >>

\* The rtmp flag set after the entry's pairs are copied, so that it replaces
\* the entry's own rtmp: the variant C10 tells from the code.
MetaOf_flag_last(f, query) ==
    LET copied == InsertAll(f.meta, query)
    IN  IF StartsWith(ConnOf(query), (*rtmp*) <<"r","t","m","p">>)
        THEN Insert(copied, (*rtmp*) <<"r","t","m","p">>, (*true*) <<"t","r","u","e">>)
        ELSE copied

\* The attribute map of a format made from a decoded entry (lines 155-166).
MetaOf(f, query) ==
    LET marked == IF StartsWith(ConnOf(query), (*rtmp*) <<"r","t","m","p">>)
                  THEN Insert(f.meta, (*rtmp*) <<"r","t","m","p">>, (*true*) <<"t","r","u","e">>)
                  ELSE f.meta
    IN  InsertAll(marked, query)

\* One turn of the loop over format_strings (lines 145-172): the formats
\* with the entry's format pushed, or unchanged when the entry is skipped.
PushEntry(formats, v) ==
    LET query == parse_query(v)
    IN  IF ~Has(query, (*itag*) <<"i","t","a","g">>) THEN formats
        ELSE LET i == parse_i32(query[(*itag*) <<"i","t","a","g">>])
             IN  IF ~i.ok THEN formats
                 ELSE LET n == Format_new(i.val)
                      IN  IF ~n.some THEN formats
                          ELSE Append(formats, [n.f EXCEPT !.meta = MetaOf(n.f, query)])

RECURSIVE FormatsLoop(_, _)
FormatsLoop(formats, format_strings) ==
    IF format_strings = << >> THEN formats
    ELSE FormatsLoop(PushEntry(formats, Head(format_strings)), Tail(format_strings))

\* The adaptive list taken first: the variant C9 tells from the code.
FormatStrings_adaptive_first(info) ==
    (IF Has(info, (*adaptive_fmts*) <<"a","d","a","p","t","i","v","e","_","f","m","t","s">>)
     THEN Split(info[(*adaptive_fmts*) <<"a","d","a","p","t","i","v","e","_","f","m","t","s">>], ",") ELSE << >>)
    \o (IF Has(info, (*url_encoded_fmt_stream_map*) <<"u","r","l","_","e","n","c","o","d","e","d","_","f","m","t","_","s","t","r","e","a","m","_","m","a","p">>)
        THEN Split(info[(*url_encoded_fmt_stream_map*) <<"u","r","l","_","e","n","c","o","d","e","d","_","f","m","t","_","s","t","r","e","a","m","_","m","a","p">>], ",") ELSE << >>)

\* Lines 134-141.
FormatStrings(info) ==
    (IF Has(info, (*url_encoded_fmt_stream_map*) <<"u","r","l","_","e","n","c","o","d","e","d","_","f","m","t","_","s","t","r","e","a","m","_","m","a","p">>)
     THEN Split(info[(*url_encoded_fmt_stream_map*) <<"u","r","l","_","e","n","c","o","d","e","d","_","f","m","t","_","s","t","r","e","a","m","_","m","a","p">>], ",") ELSE << >>)
    \o (IF Has(info, (*adaptive_fmts*) <<"a","d","a","p","t","i","v","e","_","f","m","t","s">>)
        THEN Split(info[(*adaptive_fmts*) <<"a","d","a","p","t","i","v","e","_","f","m","t","s">>], ",") ELSE << >>)

\* Lines 110-132 and 175.
FillVideoInfo(info) ==
    [DefaultVideoInfo EXCEPT
        !.title    = IF Has(info, (*title*) <<"t","i","t","l","e">>) THEN info[(*title*) <<"t","i","t","l","e">>] ELSE @,
        !.author   = IF Has(info, (*author*) <<"a","u","t","h","o","r">>) THEN info[(*author*) <<"a","u","t","h","o","r">>] ELSE @,
        !.duration = IF Has(info, (*length_seconds*) <<"l","e","n","g","t","h","_","s","e","c","o","n","d","s">>)
                     THEN parse_i32(info[(*length_seconds*) <<"l","e","n","g","t","h","_","s","e","c","o","n","d","s">>]).val ELSE @,
        !.keywords = IF Has(info, (*keywords*) <<"k","e","y","w","o","r","d","s">>)
                     THEN Split(info[(*keywords*) <<"k","e","y","w","o","r","d","s">>], ",") ELSE @,
        !.formats  = FormatsLoop(<< >>, FormatStrings(info))]

\* The message lines 96-102 format for status "fail".  The value of the
\* format! expression is dropped: no return and no Err carries it.
FailMessage(info) ==
    (*Error *) <<"E","r","r","o","r"," ">>
        \o (IF Has(info, (*errorcode*) <<"e","r","r","o","r","c","o","d","e">>) THEN info[(*errorcode*) <<"e","r","r","o","r","c","o","d","e">>] ELSE << >>)
        \o (*:*) <<":">>
        \o (IF Has(info, (*reason*) <<"r","e","a","s","o","n">>) THEN info[(*reason*) <<"r","e","a","s","o","n">>] ELSE << >>)

\* The status check letting a missing status through: the variant C7 tells
\* from the code.
StatusCheck_lenient(info) == "continue"

\* Lines 93-108: the only return is for a missing status; for status "fail"
\* control leaves the match and goes on to line 110.
StatusCheck(info) ==
    IF Has(info, (*status*) <<"s","t","a","t","u","s">>) THEN "continue" ELSE "status not found"

\* Lines 92-176.
Assemble(info) ==
    IF StatusCheck(info) = "status not found" THEN Err(ErrStatusNotFound)
    ELSE Ok(FillVideoInfo(info))

---------------------------------------------------------------------------
(* get_download_url and get_filename.                                      *)

UrlOk(u) == [kind |-> "Ok", url |-> u]
UrlErrNone == [kind |-> "Err", url |-> (*NoneError*) <<"N","o","n","e","E","r","r","o","r">>]
UrlErrUtf8 == [kind |-> "Err", url |-> (*Utf8Error*) <<"U","t","f","8","E","r","r","o","r">>]
UrlErrParse == [kind |-> "Err", url |-> (*ParseError*) <<"P","a","r","s","e","E","r","r","o","r">>]

\* get_download_url parsing the attribute as it stands, not percent-decoded:
\* the variant C6 tells from the code.
get_download_url_undecoded(f) ==
    IF ~Has(f.meta, (*url*) <<"u","r","l">>) THEN UrlErrNone
    ELSE LET u == Url_parse(f.meta[(*url*) <<"u","r","l">>])
         IN  IF u.ok THEN UrlOk(Serialize(u)) ELSE UrlErrParse

\* Lines 24-31: ? on the missing key, ? on decode_utf8, ? on Url::parse.
get_download_url(f) ==
    IF ~Has(f.meta, (*url*) <<"u","r","l">>) THEN UrlErrNone
    ELSE LET bytes == percent_decode(f.meta[(*url*) <<"u","r","l">>])
         IN  IF ~Utf8Ok(bytes) THEN UrlErrUtf8
             ELSE LET u == Url_parse(bytes)
                  IN  IF u.ok THEN UrlOk(Serialize(u)) ELSE UrlErrParse

\* get_filename writing the title as it is, empty or not: the variant C8
\* tells from the code.
get_filename_raw_title(i, f) ==
    i.title \o (* *) <<" ">> \o f.resolution \o (*.*) <<".">> \o f.extension

\* Lines 33-41.
get_filename(i, f) ==
    LET title == IF i.title # << >> THEN i.title ELSE (*no title*) <<"n","o"," ","t","i","t","l","e">>
    IN  title \o (* *) <<" ">> \o f.resolution \o (*.*) <<".">> \o f.extension

---------------------------------------------------------------------------
(* get_video_info up to the call of get_video_info_from_html (lines 43-77) *)

YOUTUBE_VIDEO_INFO_URL == (*https://www.youtube.com/get_video_info*) <<"h","t","t","p","s",":","/","/","w","w","w",".","y","o","u","t","u","b","e",".","c","o","m","/","g","e","t","_","v","i","d","e","o","_","i","n","f","o">>

NoId == <<"NoId">>

\* The call of get_video_info_from_html with an identifier, or the value
\* returned without that call.
CallHtml(sh, ident) == [shape |-> sh, call |-> TRUE, id |-> ident, result |-> Pending]
Return(sh, r) == [shape |-> sh, call |-> FALSE, id |-> NoId, result |-> r]

\* get_video_info_from_url taking the first v of the query instead of the
\* last: the variant C4 tells from the code.
get_video_info_from_url_first_v(u) ==
    LET vs == SelectSeq(query_pairs(u), LAMBDA kv : kv[1] = (*v*) <<"v">>)
    IN  IF vs # << >> THEN CallHtml("full", vs[1][2])
        ELSE Return("full", Err(ErrNoVideoId))

\* Lines 58-68.
get_video_info_from_url(u) ==
    LET pairs == CollectHashMap(query_pairs(u))
    IN  IF Has(pairs, (*v*) <<"v">>) THEN CallHtml("full", pairs[(*v*) <<"v">>])
        ELSE Return("full", Err(ErrNoVideoId))

\* Lines 70-77: with an empty path the body ends after the if, with no
\* value and no error.
get_video_info_from_short_url(u) ==
    LET path == trim_start_matches(u.path, "/")
    IN  IF Len(path) > 0 THEN CallHtml("short", path)
        ELSE Return("short", Unit)

\* Lines 43-56.
get_video_info(v) ==
    LET parse_url == Url_parse(v)
    IN  IF ~parse_url.ok THEN CallHtml("raw", v)
        ELSE IF parse_url.host = (*youtu.be*) <<"y","o","u","t","u",".","b","e">>
        THEN get_video_info_from_short_url(parse_url)
        ELSE get_video_info_from_url(parse_url)

\* Line 80.
InfoUrl(ident) == YOUTUBE_VIDEO_INFO_URL \o (*?video_id=*) <<"?","v","i","d","e","o","_","i","d","=">> \o ident

\* Lines 186-194: the client, or the error of a proxy URL that does not
\* parse.
get_client(e) == IF e.https_proxy = "invalid" THEN "Err" ELSE "Client"

StatusCodeOk == 200

\* Lines 85-87: the Err built for another status is a statement of its own,
\* dropped at the semicolon; control reaches line 89 whatever the status.
StatusGate(status) ==
    LET dropped == IF status # StatusCodeOk
                   THEN Err((*video info response invalid status code*) <<"v","i","d","e","o"," ","i","n","f","o"," ","r","e","s","p","o","n","s","e"," ","i","n","v","a","l","i","d"," ","s","t","a","t","u","s"," ","c","o","d","e">>)
                   ELSE Pending
    IN  "continue"

---------------------------------------------------------------------------
(* The inputs of the model: the references given to get_video_info, the    *)
(* environment, and the answers of the platform.                           *)

RECURSIVE Rep(_, _)
Rep(c, k) == IF k = 0 THEN << >> ELSE <<c>> \o Rep(c, k - 1)

RECURSIVE Join(_, _)
Join(pieces, sep) ==
    IF pieces = << >> THEN << >>
    ELSE IF Len(pieces) = 1 THEN Head(pieces)
    ELSE Head(pieces) \o sep \o Join(Tail(pieces), sep)

SeqsUpTo(S, n) == UNION {[1..k -> S] : k \in 0..n}

Unreserved == Lower \cup Upper \cup Digit \cup {"*", "-", ".", "_"}
            \cup {"G", "H", "I", "J", "K", "L", "M", "N", "O", "P", "Q", "R", "S",
                  "T", "U", "V", "W", "X", "Y", "Z"}

HexChar(n) == IF n < 10 THEN AsciiTable[17 + n] ELSE AsciiTable[34 + (n - 10)]

CodeOf(c) == 31 + (CHOOSE k \in 1..Len(AsciiTable) : AsciiTable[k] = c)

\* What the platform's form encoding of a value is (form_urlencoded's
\* byte_serialize): the inverse of FormDecode.
EncodeChar(c) ==
    IF c \in Unreserved THEN <<c>>
    ELSE IF c = " " THEN <<"+">>
    ELSE <<"%", HexChar(CodeOf(c) \div 16), HexChar(CodeOf(c) % 16)>>

RECURSIVE Encode(_)
Encode(s) ==
    IF s = << >> THEN << >>
    ELSE IF Len(s) = 1 THEN EncodeChar(s[1])
    ELSE Encode(SubSeq(s, 1, Len(s) \div 2)) \o Encode(SubSeq(s, Len(s) \div 2 + 1, Len(s)))

\* The references: raw identifiers and search terms, and URLs with and
\* without a scheme, on both hosts, with up to MaxSlashes slashes before the
\* last path segment.
Paths ==
    {<< >>} \cup {Rep("/", k) \o seg : k \in 1..MaxSlashes, seg \in {<< >>, (*abc123*) <<"a","b","c","1","2","3">>, (*watch*) <<"w","a","t","c","h">>}}

Queries == {<< >>, (*?v=abc123*) <<"?","v","=","a","b","c","1","2","3">>, (*?t=1*) <<"?","t","=","1">>, (*?t=1&v=abc123*) <<"?","t","=","1","&","v","=","a","b","c","1","2","3">>, (*?v=a&v=b*) <<"?","v","=","a","&","v","=","b">>, (*?v=a%20b*) <<"?","v","=","a","%","2","0","b">>}

Inputs ==
    {sch \o host \o path \o q :
        sch \in {(*https://*) <<"h","t","t","p","s",":","/","/">>, << >>},
        host \in {(*youtu.be*) <<"y","o","u","t","u",".","b","e">>, (*www.youtube.com*) <<"w","w","w",".","y","o","u","t","u","b","e",".","c","o","m">>},
        path \in Paths,
        q \in Queries}
    \cup {(*abc123*) <<"a","b","c","1","2","3">>, (*rust tutorial*) <<"r","u","s","t"," ","t","u","t","o","r","i","a","l">>, (*mailto:abc123*) <<"m","a","i","l","t","o",":","a","b","c","1","2","3">>, (* https://youtu.be/abc123 *) <<" ","h","t","t","p","s",":","/","/","y","o","u","t","u",".","b","e","/","a","b","c","1","2","3"," ">>}

Envs == [https_proxy : {"unset", "valid", "invalid"}]

\* A response body: key=value pieces joined by "&", a missing field left out.
Absent == <<"Absent">>

Field(k, v) == IF v = Absent THEN << >> ELSE <<k \o (*=*) <<"=">> \o Encode(v)>>

Body(st, ec, rs, ti, au, ls, kw, fm, af) ==
    Join(Field((*title*) <<"t","i","t","l","e">>, ti) \o Field((*status*) <<"s","t","a","t","u","s">>, st) \o Field((*errorcode*) <<"e","r","r","o","r","c","o","d","e">>, ec)
         \o Field((*reason*) <<"r","e","a","s","o","n">>, rs) \o Field((*author*) <<"a","u","t","h","o","r">>, au)
         \o Field((*length_seconds*) <<"l","e","n","g","t","h","_","s","e","c","o","n","d","s">>, ls) \o Field((*keywords*) <<"k","e","y","w","o","r","d","s">>, kw)
         \o Field((*url_encoded_fmt_stream_map*) <<"u","r","l","_","e","n","c","o","d","e","d","_","f","m","t","_","s","t","r","e","a","m","_","m","a","p">>, fm) \o Field((*adaptive_fmts*) <<"a","d","a","p","t","i","v","e","_","f","m","t","s">>, af),
         (*&*) <<"&">>)

ExampleEntry == (*itag=18&conn=rtmp_flash&url=https%3A%2F%2Fx.test%2Fv*) <<"i","t","a","g","=","1","8","&","c","o","n","n","=","r","t","m","p","_","f","l","a","s","h","&","u","r","l","=","h","t","t","p","s","%","3","A","%","2","F","%","2","F","x",".","t","e","s","t","%","2","F","v">>

\* Responses that differ in status, errorcode and reason.
StatusBodies ==
    {Body(st, ec, rs, ti, Absent, Absent, Absent, fm, Absent) :
        st \in {Absent, (*ok*) <<"o","k">>, (*fail*) <<"f","a","i","l">>},
        ec \in {Absent, (*2*) <<"2">>},
        rs \in {Absent, (*Bad*) <<"B","a","d">>},
        ti \in {Absent, (*T*) <<"T">>},
        fm \in {Absent, ExampleEntry}}

\* Responses that differ in the optional fields.
SoftBodies ==
    {Body((*ok*) <<"o","k">>, Absent, Absent, ti, au, ls, kw, Absent, Absent) :
        ti \in {Absent, << >>, (*My Video*) <<"M","y"," ","V","i","d","e","o">>},
        au \in {Absent, (*me*) <<"m","e">>},
        ls \in {Absent, (*212*) <<"2","1","2">>, (*3m*) <<"3","m">>, (*99999999999*) <<"9","9","9","9","9","9","9","9","9","9","9">>},
        kw \in {Absent, << >>, (*a,b c*) <<"a",",","b"," ","c">>}}

\* Entries of the format lists: two known itags, a missing, a non-integer
\* and an unknown itag.
EntryPool ==
    {(*itag=18&quality=medium*) <<"i","t","a","g","=","1","8","&","q","u","a","l","i","t","y","=","m","e","d","i","u","m">>, (*itag=22*) <<"i","t","a","g","=","2","2">>, (*quality=hd*) <<"q","u","a","l","i","t","y","=","h","d">>, (*itag=hd*) <<"i","t","a","g","=","h","d">>, (*itag=999*) <<"i","t","a","g","=","9","9","9">>}

\* The values of a format list key: missing, or at most n entries joined by
\* commas.
ListValues(n) == {Absent} \cup {Join(l, (*,*) <<",">>) : l \in SeqsUpTo(EntryPool, n)}

\* Responses that differ in the two format lists, with at most MaxEntries
\* entries together.
ListBodies ==
    UNION {{Body((*ok*) <<"o","k">>, Absent, Absent, (*T*) <<"T">>, Absent, Absent, Absent, fm, af) :
                fm \in ListValues(n), af \in ListValues(MaxEntries - n)} :
           n \in 0..MaxEntries}

\* Attribute pairs of an entry, as they stand in the entry.
PairPool ==
    {(*conn=rtmp_flash*) <<"c","o","n","n","=","r","t","m","p","_","f","l","a","s","h">>, (*conn=http*) <<"c","o","n","n","=","h","t","t","p">>, (*conn*) <<"c","o","n","n">>, (*rtmp=1*) <<"r","t","m","p","=","1">>, (*itag=22*) <<"i","t","a","g","=","2","2">>,
     (*url=https%3A%2F%2Fx.test%2Fv*) <<"u","r","l","=","h","t","t","p","s","%","3","A","%","2","F","%","2","F","x",".","t","e","s","t","%","2","F","v">>, (*url=https%253A%252F%252Fx.test%252Fv*) <<"u","r","l","=","h","t","t","p","s","%","2","5","3","A","%","2","5","2","F","%","2","5","2","F","x",".","t","e","s","t","%","2","5","2","F","v">>,
     (*url=https%25253A%25252F%25252Fx.test%25252Fv*) <<"u","r","l","=","h","t","t","p","s","%","2","5","2","5","3","A","%","2","5","2","5","2","F","%","2","5","2","5","2","F","x",".","t","e","s","t","%","2","5","2","5","2","F","v">>,
     (*url=x.test*) <<"u","r","l","=","x",".","t","e","s","t">>, (*url=%25FF*) <<"u","r","l","=","%","2","5","F","F">>, (*type=video%2Fmp4*) <<"t","y","p","e","=","v","i","d","e","o","%","2","F","m","p","4">>}

\* Responses whose one entry is an itag followed by at most MaxPairs pairs.
EntryBodies ==
    {Body((*ok*) <<"o","k">>, Absent, Absent, Absent, Absent, Absent, Absent,
          Join(<<(*itag=18*) <<"i","t","a","g","=","1","8">>>> \o ps, (*&*) <<"&">>), Absent) :
        ps \in SeqsUpTo(PairPool, MaxPairs)}

Bodies == StatusBodies \cup SoftBodies \cup ListBodies \cup EntryBodies

OkBody == Body((*ok*) <<"o","k">>, Absent, Absent, (*T*) <<"T">>, Absent, Absent, Absent, ExampleEntry, Absent)

\* What a request meets: the transport fails or answers with a status, and
\* the body reads fully or not.
Servers(bodies) ==
    [transport : {"ok", "fail"}, status : {200, 404}, read : {"ok", "fail"}, body : bodies]

---------------------------------------------------------------------------
(* The calls. *)

NoCall == [f |-> NoFormat, res |-> [kind |-> "None", url |-> << >>]]

Init ==
    /\ \/ /\ value \in Inputs
          /\ env \in Envs
          /\ server \in Servers({OkBody})
       \/ /\ value = (*abc123*) <<"a","b","c","1","2","3">>
          /\ env = [https_proxy |-> "unset"]
          /\ \/ server \in [transport : {"ok"}, status : {200}, read : {"ok"},
                               body : Bodies]
             \/ server \in [transport : {"ok"}, status : {404}, read : {"ok"},
                               body : StatusBodies]
    /\ pc = "start"
    /\ shape = "none"
    /\ id = NoId
    /\ sent = << >>
    /\ resp_body = << >>
    /\ info_map = EmptyMap
    /\ result = Pending
    /\ dl = NoCall
    /\ filename = << >>

\* get_video_info, lines 43-77: the reference is classified, and either
\* get_video_info_from_html is called or the call returns.
Resolve ==
    /\ pc = "start"
    /\ LET r == get_video_info(value)
       IN  /\ shape' = r.shape
           /\ id' = r.id
           /\ result' = r.result
           /\ pc' = IF r.call THEN "html" ELSE "done"
    /\ UNCHANGED <<value, env, server, sent, resp_body, info_map, dl, filename>>

\* Lines 80-83: the client is built; its error returns through the ?.
BuildClient ==
    /\ pc = "html"
    /\ IF get_client(env) = "Err"
       THEN result' = Err(ErrProxy) /\ pc' = "done"
       ELSE result' = result /\ pc' = "send"
    /\ UNCHANGED <<value, env, server, shape, id, sent, resp_body, info_map, dl, filename>>

\* Send with one more try after a transport failure: the variant C5 tells
\* from the code.
Send_with_retry ==
    /\ pc = "send"
    /\ sent' = Append(sent, InfoUrl(id))
    /\ IF server.transport = "fail"
       THEN IF Len(sent) = 0
            THEN result' = result /\ pc' = "send"
            ELSE result' = Err(ErrSend) /\ pc' = "done"
       ELSE result' = result /\ pc' = "status"
    /\ UNCHANGED <<value, env, server, shape, id, resp_body, info_map, dl, filename>>

\* Line 84: send(); a transport failure returns through the ?.
Send ==
    /\ pc = "send"
    /\ sent' = Append(sent, InfoUrl(id))
    /\ IF server.transport = "fail"
       THEN result' = Err(ErrSend) /\ pc' = "done"
       ELSE result' = result /\ pc' = "status"
    /\ UNCHANGED <<value, env, server, shape, id, resp_body, info_map, dl, filename>>

\* Lines 85-90: the status is compared, then the body is read; a read
\* failure returns through the ?.
ReadBody ==
    /\ pc = "status"
    /\ StatusGate(server.status) = "continue"
    /\ IF server.read = "fail"
       THEN result' = Err(ErrRead) /\ pc' = "done" /\ resp_body' = resp_body
       ELSE result' = result /\ pc' = "decode" /\ resp_body' = server.body
    /\ UNCHANGED <<value, env, server, shape, id, sent, info_map, dl, filename>>

\* Lines 91-176.
Decode ==
    /\ pc = "decode"
    /\ info_map' = parse_query(resp_body)
    /\ result' = Assemble(info_map')
    /\ pc' = "done"
    /\ UNCHANGED <<value, env, server, shape, id, sent, resp_body, dl, filename>>

\* get_download_url on a format of the returned VideoInfo.
GetDownloadUrl ==
    /\ pc = "done"
    /\ result.kind = "Ok"
    /\ \E n \in 1..Len(result.video_info.formats) :
          LET f == result.video_info.formats[n]
          IN  dl' = [f |-> f, res |-> get_download_url(f)]
    /\ UNCHANGED <<value, env, server, pc, shape, id, sent, resp_body, info_map, result, filename>>

\* get_filename on the returned VideoInfo and one of its formats.
GetFilename ==
    /\ pc = "done"
    /\ result.kind = "Ok"
    /\ \E n \in 1..Len(result.video_info.formats) :
          filename' = get_filename(result.video_info, result.video_info.formats[n])
    /\ UNCHANGED <<value, env, server, pc, shape, id, sent, resp_body, info_map, result, dl>>

Next ==
    \/ Resolve
    \/ BuildClient
    \/ Send
    \/ ReadBody
    \/ Decode
    \/ GetDownloadUrl
    \/ GetFilename

Spec == Init /\ [][Next]_vars

---------------------------------------------------------------------------
(* What the claims are stated with. *)

\* s holds sub as a substring.
Contains(s, sub) == \E i \in 0..(Len(s) - Len(sub)) : SubSeq(s, i + 1, i + Len(sub)) = sub

\* The call has returned.
Returned == pc = "done"

\* The call has returned after a request that was answered and whose body
\* was read, so that the body was decoded.
Decoded == Returned /\ Len(sent) = 1 /\ server.transport = "ok" /\ server.read = "ok"

\* The decoded top-level response.
TopInfo == info_map

TopGet(k) == IF Has(TopInfo, k) THEN TopInfo[k] ELSE << >>

\* The reference is a URL of the short-link host, and its path without the
\* leading slashes.
IsShortUrl == Url_parse(value).ok /\ Url_parse(value).host = (*youtu.be*) <<"y","o","u","t","u",".","b","e">>

ShortPath ==
    LET p == Url_parse(value).path
        i == CHOOSE n \in 0..Len(p) :
                 /\ \A j \in 1..n : p[j] = "/"
                 /\ (n < Len(p) => p[n + 1] # "/")
    IN  SubSeq(p, i + 1, Len(p))

\* The reference is a URL of another host, and the value of the last pair of
\* its query whose key is v.
IsFullUrl == Url_parse(value).ok /\ Url_parse(value).host # (*youtu.be*) <<"y","o","u","t","u",".","b","e">>

VPairs == SelectSeq(query_pairs(Url_parse(value)), LAMBDA kv : kv[1] = (*v*) <<"v">>)

HasV == VPairs # << >>

LastV == VPairs[Len(VPairs)][2]

\* The references the claims call input errors.
IsInputError == (IsShortUrl /\ ShortPath = << >>) \/ (IsFullUrl /\ ~HasV)

---------------------------------------------------------------------------
(* The claims. *)

\* C1: whenever the decoded response has status "fail", the call returns an
\* error whose message holds the response's errorcode and reason (empty when
\* missing), and never a VideoInfo.
C1_FailStatusAborts ==
    (Decoded /\ Has(TopInfo, (*status*) <<"s","t","a","t","u","s">>) /\ TopInfo[(*status*) <<"s","t","a","t","u","s">>] = (*fail*) <<"f","a","i","l">>)
        => /\ result.kind = "Err"
           /\ Contains(result.msg, TopGet((*errorcode*) <<"e","r","r","o","r","c","o","d","e">>))
           /\ Contains(result.msg, TopGet((*reason*) <<"r","e","a","s","o","n">>))

\* C2: for a URL of the short-link host, a non-empty path without its
\* leading slash is the identifier given to the fetch, and an empty one makes
\* the call return an error: every path ends in a fetch with a non-empty
\* identifier or in an error.
C2_ShortUrlIdentifierOrError ==
    (IsShortUrl /\ pc # "start")
        => IF ShortPath # << >>
           THEN id = ShortPath
           ELSE result.kind = "Err" /\ sent = << >>

\* C3: whenever the request completes with a status other than success, the
\* call returns an error and the body is not decoded; a transport failure and
\* a read failure are returned as errors too, and nothing is sent again.
C3_BadStatusIsAnError ==
    /\ (Returned /\ Len(sent) = 1 /\ server.transport = "ok"
            /\ server.status # StatusCodeOk)
           => result.kind = "Err" /\ resp_body = << >>
    /\ (Returned /\ Len(sent) = 1 /\ server.transport = "fail") => result.kind = "Err"
    /\ (Returned /\ Len(sent) = 1 /\ server.transport = "ok" /\ server.read = "fail")
           => result.kind = "Err"
    /\ Len(sent) <= 1

\* C4: every reference is of exactly one of three shapes, and the identifier
\* follows the shape: a string that is no absolute URL is the identifier
\* whole; a URL of host youtu.be gives its path without the leading slashes;
\* any other URL gives the value of its v parameter, and fails with the
\* no-video-id error when it has none.
C4_ThreeShapes ==
    pc # "start"
        => /\ shape \in {"raw", "short", "full"}
           /\ (shape = "raw") <=> ~Url_parse(value).ok
           /\ (shape = "short") <=> IsShortUrl
           /\ (shape = "full") <=> IsFullUrl
           /\ shape = "raw" => id = value
           /\ (shape = "short" /\ id # NoId) => id = ShortPath
           /\ (shape = "short" /\ ShortPath # << >>) => id = ShortPath
           /\ (shape = "full" /\ HasV) => id = LastV
           /\ (shape = "full" /\ ~HasV)
                  => id = NoId /\ result = Err(ErrNoVideoId) /\ Returned
           /\ value = (*https://www.youtube.com/watch?v=abc123*) <<"h","t","t","p","s",":","/","/","w","w","w",".","y","o","u","t","u","b","e",".","c","o","m","/","w","a","t","c","h","?","v","=","a","b","c","1","2","3">> => id = (*abc123*) <<"a","b","c","1","2","3">>
           /\ value = (*https://youtu.be/abc123*) <<"h","t","t","p","s",":","/","/","y","o","u","t","u",".","b","e","/","a","b","c","1","2","3">> => id = (*abc123*) <<"a","b","c","1","2","3">>
           /\ value = (*abc123*) <<"a","b","c","1","2","3">> => id = (*abc123*) <<"a","b","c","1","2","3">>

C4_Witness ==
    /\ Returned
    /\ value = (*https://www.youtube.com/watch?v=abc123*) <<"h","t","t","p","s",":","/","/","w","w","w",".","y","o","u","t","u","b","e",".","c","o","m","/","w","a","t","c","h","?","v","=","a","b","c","1","2","3">>
    /\ shape = "full"
    /\ id = (*abc123*) <<"a","b","c","1","2","3">>
    /\ sent = <<InfoUrl((*abc123*) <<"a","b","c","1","2","3">>)>>

\* C5 as claimed: a call that ends in an input error sends no request; every
\* other call sends exactly one, after the identifier is resolved, and never
\* a second.
C5_ExactlyOneRequest ==
    /\ Len(sent) <= 1
    /\ sent # << >> => (id # NoId /\ sent = <<InfoUrl(id)>>)
    /\ Returned => Len(sent) = IF IsInputError THEN 0 ELSE 1

\* C5 as amended: a call that ends in an input error sends no request; every
\* other call sends at most one request, after the identifier is resolved:
\* exactly one when get_client gives a client, and none when get_client
\* fails; never a second.
C5_OneRequestWhenClientBuilt ==
    /\ Len(sent) <= 1
    /\ sent # << >> => (id # NoId /\ pc \notin {"start", "html", "send"}
                        /\ sent = <<InfoUrl(id)>>)
    /\ Returned => Len(sent) = IF IsInputError \/ get_client(env) = "Err" THEN 0 ELSE 1

C5_Witness ==
    /\ Returned
    /\ ~IsInputError
    /\ get_client(env) = "Client"
    /\ server.transport = "fail"
    /\ Len(sent) = 1
    /\ result = Err(ErrSend)

\* The format get_download_url was last called with, and its attribute map.
DlCalled == dl # NoCall

DlUrl == IF Has(dl.f.meta, (*url*) <<"u","r","l">>) THEN dl.f.meta[(*url*) <<"u","r","l">>] ELSE Absent

\* C6 (the result): without a url attribute the result is an error; with one
\* it is the value percent-decoded once and parsed as an absolute URL, an
\* error when the decoded text is no absolute URL.  The format is the one of
\* the VideoInfo, unchanged.
C6_Result ==
    DlCalled
        => /\ \E n \in 1..Len(result.video_info.formats) :
                  result.video_info.formats[n] = dl.f
           /\ DlUrl = Absent => dl.res.kind = "Err"
           /\ DlUrl # Absent =>
                  LET d == percent_decode(DlUrl)
                  IN  IF Utf8Ok(d) /\ Url_parse(d).ok
                      THEN dl.res = UrlOk(Serialize(Url_parse(d)))
                      ELSE dl.res.kind = "Err"
           /\ DlUrl = (*https://x.test/v*) <<"h","t","t","p","s",":","/","/","x",".","t","e","s","t","/","v">> => dl.res = UrlOk((*https://x.test/v*) <<"h","t","t","p","s",":","/","/","x",".","t","e","s","t","/","v">>)
           /\ DlUrl = (*https%3A%2F%2Fx.test%2Fv*) <<"h","t","t","p","s","%","3","A","%","2","F","%","2","F","x",".","t","e","s","t","%","2","F","v">> => dl.res = UrlOk((*https://x.test/v*) <<"h","t","t","p","s",":","/","/","x",".","t","e","s","t","/","v">>)
           /\ DlUrl = (*https%253A%252F%252Fx.test%252Fv*) <<"h","t","t","p","s","%","2","5","3","A","%","2","5","2","F","%","2","5","2","F","x",".","t","e","s","t","%","2","5","2","F","v">> => dl.res.kind = "Err"
           /\ DlUrl = (*x.test*) <<"x",".","t","e","s","t">> => dl.res.kind = "Err"

\* C6: get_download_url gives an error for a format without a url attribute,
\* and otherwise the attribute percent-decoded once and parsed as an absolute
\* URL (https://x.test/v for the entry of the example); the call sends no
\* request and leaves the format and the VideoInfo as they were.
C6_DownloadUrl ==
    /\ []C6_Result
    /\ [][GetDownloadUrl => (sent' = sent /\ result' = result /\ pc' = pc)]_vars

C6_Witness ==
    /\ DlCalled
    /\ dl.f.itag = 18
    /\ Has(dl.f.meta, (*conn*) <<"c","o","n","n">>) /\ dl.f.meta[(*conn*) <<"c","o","n","n">>] = (*rtmp_flash*) <<"r","t","m","p","_","f","l","a","s","h">>
    /\ Has(dl.f.meta, (*rtmp*) <<"r","t","m","p">>) /\ dl.f.meta[(*rtmp*) <<"r","t","m","p">>] = (*true*) <<"t","r","u","e">>
    /\ dl.res = UrlOk((*https://x.test/v*) <<"h","t","t","p","s",":","/","/","x",".","t","e","s","t","/","v">>)

\* C7: whenever the decoded response has no status key, the call returns the
\* error "status not found" and no VideoInfo, whatever other keys are there;
\* a response that has a status never ends in that error.
C7_StatusNotFound ==
    Decoded
        => /\ ~Has(TopInfo, (*status*) <<"s","t","a","t","u","s">>)
                  => /\ result.kind = "Err"
                     /\ Contains(result.msg, (*status not found*) <<"s","t","a","t","u","s"," ","n","o","t"," ","f","o","u","n","d">>)
           /\ Has(TopInfo, (*status*) <<"s","t","a","t","u","s">>) => ~Contains(result.msg, (*status not found*) <<"s","t","a","t","u","s"," ","n","o","t"," ","f","o","u","n","d">>)

C7_Witness ==
    /\ Decoded
    /\ ~Has(TopInfo, (*status*) <<"s","t","a","t","u","s">>)
    /\ Has(TopInfo, (*title*) <<"t","i","t","l","e">>)
    /\ Has(TopInfo, (*errorcode*) <<"e","r","r","o","r","c","o","d","e">>)
    /\ Has(TopInfo, (*url_encoded_fmt_stream_map*) <<"u","r","l","_","e","n","c","o","d","e","d","_","f","m","t","_","s","t","r","e","a","m","_","m","a","p">>)
    /\ result = Err(ErrStatusNotFound)

\* C8: a response fetched with success whose status is present and is not
\* "fail" gives a VideoInfo whatever optional keys it has: a missing title or
\* author leaves the empty string, a missing or non-integer length_seconds
\* leaves duration 0, missing keywords leave the empty sequence, and
\* get_filename writes "no title" for an empty title.
C8_SoftConditions ==
    (Decoded /\ server.status = StatusCodeOk /\ Has(TopInfo, (*status*) <<"s","t","a","t","u","s">>)
        /\ TopInfo[(*status*) <<"s","t","a","t","u","s">>] # (*fail*) <<"f","a","i","l">>)
        => /\ result.kind = "Ok"
           /\ ~Has(TopInfo, (*title*) <<"t","i","t","l","e">>) => result.video_info.title = << >>
           /\ Has(TopInfo, (*title*) <<"t","i","t","l","e">>) => result.video_info.title = TopInfo[(*title*) <<"t","i","t","l","e">>]
           /\ ~Has(TopInfo, (*author*) <<"a","u","t","h","o","r">>) => result.video_info.author = << >>
           /\ ~Has(TopInfo, (*length_seconds*) <<"l","e","n","g","t","h","_","s","e","c","o","n","d","s">>) => result.video_info.duration = 0
           /\ (Has(TopInfo, (*length_seconds*) <<"l","e","n","g","t","h","_","s","e","c","o","n","d","s">>)
                   /\ \E n \in 1..Len(TopInfo[(*length_seconds*) <<"l","e","n","g","t","h","_","s","e","c","o","n","d","s">>]) :
                          TopInfo[(*length_seconds*) <<"l","e","n","g","t","h","_","s","e","c","o","n","d","s">>][n] \notin Digit \cup {"+", "-"})
                  => result.video_info.duration = 0
           /\ TopGet((*length_seconds*) <<"l","e","n","g","t","h","_","s","e","c","o","n","d","s">>) = (*99999999999*) <<"9","9","9","9","9","9","9","9","9","9","9">>
                  => result.video_info.duration = 0
           /\ TopGet((*length_seconds*) <<"l","e","n","g","t","h","_","s","e","c","o","n","d","s">>) = (*212*) <<"2","1","2">> => result.video_info.duration = 212
           /\ ~Has(TopInfo, (*keywords*) <<"k","e","y","w","o","r","d","s">>) => result.video_info.keywords = << >>
           /\ (filename # << >> /\ result.video_info.title = << >>)
                  => StartsWith(filename, (*no title *) <<"n","o"," ","t","i","t","l","e"," ">>)
           /\ (filename # << >> /\ result.video_info.title # << >>)
                  => StartsWith(filename, result.video_info.title \o (* *) <<" ">>)

C8_Witness ==
    /\ Decoded
    /\ server.status = StatusCodeOk
    /\ TopGet((*status*) <<"s","t","a","t","u","s">>) = (*ok*) <<"o","k">>
    /\ ~Has(TopInfo, (*title*) <<"t","i","t","l","e">>)
    /\ ~Has(TopInfo, (*author*) <<"a","u","t","h","o","r">>)
    /\ ~Has(TopInfo, (*length_seconds*) <<"l","e","n","g","t","h","_","s","e","c","o","n","d","s">>)
    /\ ~Has(TopInfo, (*keywords*) <<"k","e","y","w","o","r","d","s">>)
    /\ result.kind = "Ok"
    /\ filename = (*no title 360p.mp4*) <<"n","o"," ","t","i","t","l","e"," ","3","6","0","p",".","m","p","4">>

\* The entries of the two format lists of a decoded response, the combined
\* list first, and for the pairs of an entry their keys and the value of the
\* last pair of a key.
ListEntries(top, k) == IF Has(top, k) THEN Split(top[k], ",") ELSE << >>

EntriesOf(top) ==
    ListEntries(top, (*url_encoded_fmt_stream_map*) <<"u","r","l","_","e","n","c","o","d","e","d","_","f","m","t","_","s","t","r","e","a","m","_","m","a","p">>) \o ListEntries(top, (*adaptive_fmts*) <<"a","d","a","p","t","i","v","e","_","f","m","t","s">>)

PairsOf(e) == form_urlencoded_parse(e)

KeysOf(pairs) == {pairs[j][1] : j \in 1..Len(pairs)}

LastValue(pairs, k) ==
    LET j == CHOOSE n \in 1..Len(pairs) :
                 /\ pairs[n][1] = k
                 /\ \A o \in (n + 1)..Len(pairs) : pairs[o][1] # k
    IN  pairs[j][2]

\* The itag of an entry, when it has one that is an integer.
ItagOf(e) ==
    LET pairs == PairsOf(e)
    IN  IF (*itag*) <<"i","t","a","g">> \in KeysOf(pairs) THEN parse_i32(LastValue(pairs, (*itag*) <<"i","t","a","g">>))
        ELSE [ok |-> FALSE, val |-> 0]

\* The entry has an itag that is an integer the catalog knows.
IsKept(e) == LET i == ItagOf(e) IN i.ok /\ i.val \in DOMAIN Catalog

KeptEntries == SelectSeq(EntriesOf(TopInfo), IsKept)

\* C9: the formats of a returned VideoInfo are, in order, the entries of the
\* combined list and then of the adaptive list whose itag is present, an
\* integer and known to the catalog: one format for each such entry, at its
\* place, two entries of one itag both kept; any other entry is dropped and
\* the call does not fail for it.
C9_FormatsAreTheKeptEntries ==
    (Decoded /\ Has(TopInfo, (*status*) <<"s","t","a","t","u","s">>))
        => LET kept    == KeptEntries
               formats == result.video_info.formats
           IN  /\ result.kind = "Ok"
               /\ Len(formats) = Len(kept)
               /\ \A n \in 1..Len(kept) :
                      LET f     == formats[n]
                          pairs == PairsOf(kept[n])
                      IN  /\ f.itag \in DOMAIN Catalog
                          /\ f.itag = ItagOf(kept[n]).val
                          /\ f.resolution = Catalog[f.itag].resolution
                          /\ f.extension = Catalog[f.itag].extension
                          /\ \A k \in KeysOf(pairs) : f.meta[k] = LastValue(pairs, k)

C9_Witness ==
    /\ Decoded
    /\ LET top == TopInfo
       IN  /\ Len(ListEntries(top, (*url_encoded_fmt_stream_map*) <<"u","r","l","_","e","n","c","o","d","e","d","_","f","m","t","_","s","t","r","e","a","m","_","m","a","p">>)) = 2
           /\ Len(ListEntries(top, (*adaptive_fmts*) <<"a","d","a","p","t","i","v","e","_","f","m","t","s">>)) = 1
           /\ ~IsKept(EntriesOf(top)[1])
           /\ IsKept(EntriesOf(top)[2])
           /\ IsKept(EntriesOf(top)[3])
    /\ Len(result.video_info.formats) = 2
    /\ result.video_info.formats[1].itag = 22
    /\ result.video_info.formats[2].itag = 18

\* C10: the attribute map of a format holds every decoded pair of its entry,
\* the later value for a repeated key; its rtmp key is the entry's own when
\* the entry has one, else "true" exactly when the entry's conn starts with
\* rtmp, and missing when conn is missing or starts otherwise; it holds no
\* other key.
C10_AttributeMap ==
    (Decoded /\ result.kind = "Ok")
        => LET kept    == KeptEntries
               formats == result.video_info.formats
           IN  Len(formats) = Len(kept)
               => \A n \in 1..Len(kept) :
                      LET pairs == PairsOf(kept[n])
                          keys  == KeysOf(pairs)
                          meta  == formats[n].meta
                          conn  == IF (*conn*) <<"c","o","n","n">> \in keys THEN LastValue(pairs, (*conn*) <<"c","o","n","n">>)
                                   ELSE << >>
                          flag  == (*rtmp*) <<"r","t","m","p">> \notin keys /\ Len(conn) >= 4
                                       /\ SubSeq(conn, 1, 4) = (*rtmp*) <<"r","t","m","p">>
                      IN  /\ \A k \in keys : Has(meta, k) /\ meta[k] = LastValue(pairs, k)
                          /\ flag => Has(meta, (*rtmp*) <<"r","t","m","p">>) /\ meta[(*rtmp*) <<"r","t","m","p">>] = (*true*) <<"t","r","u","e">>
                          /\ DOMAIN meta = keys \cup (IF flag THEN {(*rtmp*) <<"r","t","m","p">>} ELSE {})

C10_Witness ==
    /\ Decoded
    /\ Len(KeptEntries) = 1
    /\ PairsOf(KeptEntries[1]) = <<<<(*itag*) <<"i","t","a","g">>, (*18*) <<"1","8">>>>, <<(*rtmp*) <<"r","t","m","p">>, (*1*) <<"1">>>>,
                                   <<(*conn*) <<"c","o","n","n">>, (*rtmp_flash*) <<"r","t","m","p","_","f","l","a","s","h">>>>>>
    /\ Len(result.video_info.formats) = 1
    /\ result.video_info.formats[1].meta[(*rtmp*) <<"r","t","m","p">>] = (*1*) <<"1">>


================================================================================
